---- MODULE Spec2Model ----
(***************************************************************************)
(* A model of src/main.py (Piano Tiles clone): the level generator, the    *)
(* session driver run_piano_tiles_clone and the frame loop main_game_loop  *)
(* with handle_tile_tap.                                                   *)
(*                                                                         *)
(* Units.  Times are integer milliseconds (beat times, the elapsed time    *)
(* current_time and the clock delta clock.get_time()).  Positions are      *)
(* integer pixels; every clock delta drawn below is a multiple of 10 ms,   *)
(* so tile_speed * delta_time = 300 * ms / 1000 is a whole number of       *)
(* pixels and the integer division in TileUpdate is exact.                 *)
(*                                                                         *)
(* Randomness.  random.choice draws from the process-wide generator.  The  *)
(* generator is the variable rng (a natural number): a draw among n items  *)
(* takes item rng % n and leaves rng \div n.  Ranging the initial rng over *)
(* 0 .. n1*n2*...*nk - 1 ranges the first k draws over every combination.  *)
(***************************************************************************)
EXTENDS Integers, Sequences, FiniteSets, TLC

VARIABLES
    gen_in,              \* arguments of a direct call of generate_level
    gen_out,             \* its outcome, or NotCalled
    song,                \* what load_mp3/extract_beats yield for song_path
    beat_skip,           \* run_piano_tiles_clone's beat_skip
    rng,                 \* state of the random generator
    pc,                  \* where run_piano_tiles_clone stands
    level,               \* level (list of {'time','column'})
    restarted,           \* history: a game-over screen has returned 'restart'
    tiles,               \* tiles (active Tile objects, in list order)
    current_tile_index,  \* current_tile_index
    current_time,        \* current_time, ms
    score,               \* score[0]
    misses,              \* misses[0]
    achieved_milestones, \* achieved_milestones
    running,             \* running
    music_busy,          \* pygame.mixer.music.get_busy()
    game_over_reason,    \* which call of game_over_screen is showing
    spawn_log,           \* history: level indices in the order they were spawned
    milestone_log,       \* history: milestone animations in the order appended
    dipped,              \* history: achieved milestones the score fell below since
    wrong_taps,          \* history: wrong taps in this session
    last_tap,            \* history: the key press handled since the last tick, if any
    reached              \* history: milestones a hit has taken the score to, this session

vars == <<gen_in, gen_out, song, beat_skip, rng, pc, level, restarted, tiles,
          current_tile_index, current_time, score, misses,
          achieved_milestones, running, music_busy, game_over_reason,
          spawn_log, milestone_log, dipped, wrong_taps, last_tap, reached>>

genVars == <<gen_in, gen_out>>
runVars == <<song, beat_skip, rng, pc, level, restarted>>
loopVars == <<tiles, current_tile_index, current_time, score, misses,
              achieved_milestones, running, music_busy, game_over_reason,
              spawn_log, milestone_log, dipped, wrong_taps, last_tap, reached>>

----------------------------------------------------------------------------
(* Program constants *)

screen_height == 600
tile_height == 100
hit_time == 2
hit_zone_buffer == 300
max_misses == 5
NumColumns == 4
MILESTONES == <<100, 200, 300, 400, 500>>

\* tile_speed = screen_height / hit_time, pixels per second
tile_speed == screen_height \div hit_time

----------------------------------------------------------------------------
(* Bounds of the model *)

MaxBeats == 3        \* longest beat sequence of a small song
MaxLanes == 4        \* most lanes in a direct call of generate_level
MaxStride == 2       \* largest beat_skip in a direct call of generate_level
MaxGenSeed == 35     \* largest initial rng in a direct call of generate_level
MaxSeed == 1         \* largest initial rng of a small session
MaxWrongTaps == 1    \* wrong taps modelled per session
MaxTailFrames == 1   \* elapsed time runs to the last beat plus this many 500 ms
MaxRise == 1         \* how many backward clock deltas' worth a tile is followed upwards
LongBeats == 103     \* beats of the long song

\* Beat times of the small songs, ms
BeatGrid == {0, 500}
\* Beat times of direct calls of generate_level, ms
GenBeatGrid == {0, 500, 1000}

----------------------------------------------------------------------------
(* Helpers *)

Range(s) == {s[i] : i \in DOMAIN s}

IsSorted(s) == \A i \in 1..(Len(s) - 1) : s[i] <= s[i + 1]

\* all sequences over grid of length 0..n, and the non-decreasing ones
AllSeqs(grid, n) == UNION {[1..k -> grid] : k \in 0..n}
SortedSeqs(grid, n) == {s \in AllSeqs(grid, n) : IsSorted(s)}

\* list.remove(x): drops the first element equal to x
RECURSIVE ListRemove(_, _)
ListRemove(s, x) ==
    IF s = <<>> THEN <<>>
    ELSE IF Head(s) = x THEN Tail(s)
    ELSE <<Head(s)>> \o ListRemove(Tail(s), x)

LastBeat(beats) == IF beats = <<>> THEN 0 ELSE beats[Len(beats)]

----------------------------------------------------------------------------
(* generate_level *)

\* variant: the previous column is not excluded
PossibleColumnsAllowRepeat(num_columns, last_column) ==
    [i \in 1..num_columns |-> i - 1]

\* [c for c in range(num_columns) if c != last_column]
PossibleColumns(num_columns, last_column) ==
    SelectSeq([i \in 1..num_columns |-> i - 1], LAMBDA c : c # last_column)

\* variant: the beat is taken at the tile's position in the level, not at i
GenStepDenseTimes(beat_times, num_columns, i, st) ==
    LET possible_columns ==
            IF i > 0
            THEN PossibleColumns(num_columns, st.level[Len(st.level)].column)
            ELSE [k \in 1..num_columns |-> k - 1]
    IN  IF possible_columns = <<>>
        THEN [st EXCEPT !.raised = "IndexError"]
        ELSE LET n == Len(possible_columns)
                 column == possible_columns[(st.rng % n) + 1]
             IN  [level  |-> Append(st.level,
                                    [time |-> beat_times[Len(st.level) + 1],
                                     column |-> column]),
                  rng    |-> st.rng \div n,
                  raised |-> "none"]

\* one pass of the loop body for beat index i (0-based); st = [level, rng, raised]
GenStep(beat_times, num_columns, i, st) ==
    LET possible_columns ==
            IF i > 0
            THEN PossibleColumns(num_columns, st.level[Len(st.level)].column)
            ELSE [k \in 1..num_columns |-> k - 1]
    IN  IF possible_columns = <<>>
        THEN [st EXCEPT !.raised = "IndexError"]    \* random.choice([])
        ELSE LET n == Len(possible_columns)
                 column == possible_columns[(st.rng % n) + 1]
             IN  [level  |-> Append(st.level,
                                    [time |-> beat_times[i + 1], column |-> column]),
                  rng    |-> st.rng \div n,
                  raised |-> "none"]

\* for i in range(0, len(beat_times), beat_skip)
RECURSIVE GenLoop(_, _, _, _, _)
GenLoop(beat_times, num_columns, beat_skip_, i, st) ==
    IF i >= Len(beat_times) \/ st.raised # "none" THEN st
    ELSE GenLoop(beat_times, num_columns, beat_skip_, i + beat_skip_,
                 GenStep(beat_times, num_columns, i, st))

generate_level(beat_times, num_columns, beat_skip_, seed) ==
    GenLoop(beat_times, num_columns, beat_skip_, 0,
            [level |-> <<>>, rng |-> seed, raised |-> "none"])

----------------------------------------------------------------------------
(* A direct call of generate_level: the pure function on bounded inputs *)

NotCalled == [level |-> <<>>, rng |-> 0, raised |-> "not called"]

GenInputs ==
    [beat_times  : AllSeqs(GenBeatGrid, MaxBeats),
     num_columns : 1..MaxLanes,
     beat_skip   : 1..MaxStride,
     seed        : 0..MaxGenSeed]

IdleSong == [loadable |-> FALSE, tempo_ok |-> FALSE, beats |-> <<>>]

\* no key press handled; otherwise how many tiles matched the pressed column
\* and, on a hit, the y of the tile removed
NoTap == [pressed |-> FALSE, matching |-> 0, hit_y |-> 0]

LoopIdle ==
    /\ tiles = <<>>
    /\ current_tile_index = 0
    /\ current_time = 0
    /\ score = 0
    /\ misses = 0
    /\ achieved_milestones = <<>>
    /\ running = FALSE
    /\ music_busy = FALSE
    /\ game_over_reason = "none"
    /\ spawn_log = <<>>
    /\ milestone_log = <<>>
    /\ dipped = {}
    /\ wrong_taps = 0
    /\ last_tap = NoTap
    /\ reached = {}

InitGen ==
    /\ gen_in \in GenInputs
    /\ gen_out = NotCalled
    /\ song = IdleSong
    /\ beat_skip = 1
    /\ rng = 0
    /\ pc = "exited"
    /\ level = <<>>
    /\ restarted = FALSE
    /\ LoopIdle

CallGenerateLevel ==
    /\ gen_out = NotCalled
    /\ gen_out' = generate_level(gen_in.beat_times, gen_in.num_columns,
                                 gen_in.beat_skip, gen_in.seed)
    /\ UNCHANGED <<gen_in, runVars, loopVars>>

NextGen == CallGenerateLevel

SpecGen == InitGen /\ [][NextGen]_vars

----------------------------------------------------------------------------
(* Tile *)

\* Tile.__init__: a tile starts above the screen.  id stands for the object's
\* identity (list.remove and "in" compare Tile objects by identity).
Tile(column, spawn_time, id) ==
    [column |-> column, spawn_time |-> spawn_time, y |-> -tile_height, id |-> id]

\* variant: the position is left where it is
TileUpdateFrozen(tile, delta_ms) == tile

\* Tile.update: self.y += self.tile_speed * delta_time, delta_time = ms / 1000
TileUpdate(tile, delta_ms) ==
    [tile EXCEPT !.y = @ + (tile_speed * delta_ms) \div 1000]

----------------------------------------------------------------------------
(* handle_tile_tap *)

hit_zone_y == screen_height - tile_height
hit_zone_start == hit_zone_y - hit_zone_buffer
hit_zone_end == hit_zone_y + hit_zone_buffer

\* the hit test with the window open at its upper edge on the screen
TileMatchesOpenWindow(tile, pressed_column) ==
    /\ tile.column = pressed_column
    /\ hit_zone_start < tile.y
    /\ tile.y <= hit_zone_end

\* tile.column == pressed_column and hit_zone_start <= tile.y <= hit_zone_end
TileMatches(tile, pressed_column) ==
    /\ tile.column = pressed_column
    /\ hit_zone_start <= tile.y
    /\ tile.y <= hit_zone_end

\* the scan resolving the last match of the list
LastMatch(tls, pressed_column) ==
    IF \E i \in DOMAIN tls : TileMatches(tls[i], pressed_column)
    THEN CHOOSE i \in DOMAIN tls :
            /\ TileMatches(tls[i], pressed_column)
            /\ \A j \in (i + 1)..Len(tls) : ~TileMatches(tls[j], pressed_column)
    ELSE 0

\* the for ... break scan over tiles[:]: index of the first match, 0 for none
FirstMatch(tls, pressed_column) ==
    IF \E i \in DOMAIN tls : TileMatches(tls[i], pressed_column)
    THEN CHOOSE i \in DOMAIN tls :
            /\ TileMatches(tls[i], pressed_column)
            /\ \A j \in 1..(i - 1) : ~TileMatches(tls[j], pressed_column)
    ELSE 0

\* variant: no break, every matching tile is removed and scored
handle_tile_tap_all(tls, pressed_column, sc) ==
    LET n == Cardinality({i \in DOMAIN tls : TileMatches(tls[i], pressed_column)})
    IN  IF n # 0
        THEN [tiles |-> SelectSeq(tls, LAMBDA t : ~TileMatches(t, pressed_column)),
              score |-> sc + n, hit |-> TRUE]
        ELSE [tiles |-> tls, score |-> sc - 1, hit |-> FALSE]

\* variant: the wrong-tap penalty stops at zero
handle_tile_tap_floor(tls, pressed_column, sc) ==
    LET k == FirstMatch(tls, pressed_column)
    IN  IF k # 0
        THEN [tiles |-> ListRemove(tls, tls[k]), score |-> sc + 1, hit |-> TRUE]
        ELSE [tiles |-> tls, score |-> IF sc > 0 THEN sc - 1 ELSE 0, hit |-> FALSE]

\* variant: a hit scores and leaves the tile in the list
handle_tile_tap_keep(tls, pressed_column, sc) ==
    IF FirstMatch(tls, pressed_column) # 0
    THEN [tiles |-> tls, score |-> sc + 1, hit |-> TRUE]
    ELSE [tiles |-> tls, score |-> sc - 1, hit |-> FALSE]

\* the body for a key of key_to_column: the new tiles and score
handle_tile_tap(tls, pressed_column, sc) ==
    LET k == FirstMatch(tls, pressed_column)
    IN  IF k # 0
        THEN [tiles |-> ListRemove(tls, tls[k]), score |-> sc + 1, hit |-> TRUE]
        ELSE [tiles |-> tls, score |-> sc - 1, hit |-> FALSE]

----------------------------------------------------------------------------
(* main_game_loop: the phases of one frame *)

\* variant: an if in place of the while, one tile spawned per frame at most
SpawnDueOnePerFrame(lvl, index, tls, now) ==
    IF index < Len(lvl) /\ lvl[index + 1].time <= now
    THEN [tiles |-> Append(tls, Tile(lvl[index + 1].column, lvl[index + 1].time, index)),
          index |-> index + 1]
    ELSE [tiles |-> tls, index |-> index]

\* variant: an if without the increment of current_tile_index
SpawnDueNoAdvance(lvl, index, tls, now) ==
    IF index < Len(lvl) /\ lvl[index + 1].time <= now
    THEN [tiles |-> Append(tls, Tile(lvl[index + 1].column, lvl[index + 1].time, index)),
          index |-> index]
    ELSE [tiles |-> tls, index |-> index]

\* while current_tile_index < total_tiles and level[...]['time'] <= current_time
RECURSIVE SpawnDue(_, _, _, _)
SpawnDue(lvl, index, tls, now) ==
    IF index < Len(lvl) /\ lvl[index + 1].time <= now
    THEN SpawnDue(lvl, index + 1,
                  Append(tls, Tile(lvl[index + 1].column, lvl[index + 1].time, index)),
                  now)
    ELSE [tiles |-> tls, index |-> index]

\* for tile in tiles: tile.update(delta_time)
UpdateTiles(tls, delta_ms) ==
    [i \in DOMAIN tls |-> TileUpdate(tls[i], delta_ms)]

\* variant: a tile is removed once it is past the hit window
RECURSIVE DetectMissedPastWindow(_, _, _, _)
DetectMissedPastWindow(copy, k, tls, m) ==
    IF k > Len(copy) THEN [tiles |-> tls, misses |-> m, over |-> FALSE]
    ELSE IF copy[k].y > hit_zone_end
         THEN IF m + 1 >= max_misses
              THEN [tiles |-> ListRemove(tls, copy[k]), misses |-> m + 1, over |-> TRUE]
              ELSE DetectMissedPastWindow(copy, k + 1, ListRemove(tls, copy[k]), m + 1)
         ELSE DetectMissedPastWindow(copy, k + 1, tls, m)

\* variant: every tile past the bottom is removed and counted, and misses is
\* compared with max_misses after the scan
DetectMissedThenTest(copy, k, tls, m) ==
    LET fell == {i \in DOMAIN copy : copy[i].y > screen_height}
        m2   == m + Cardinality(fell)
    IN  [tiles  |-> SelectSeq(tls, LAMBDA t : t.y <= screen_height),
         misses |-> m2,
         over   |-> fell # {} /\ m2 >= max_misses]

\* variant: the scan runs over the list it removes from, so the tile after
\* a removed one is skipped
RECURSIVE DetectMissedSkipping(_, _, _, _)
DetectMissedSkipping(copy, k, tls, m) ==
    IF k > Len(copy) THEN [tiles |-> tls, misses |-> m, over |-> FALSE]
    ELSE IF copy[k].y > screen_height
         THEN IF m + 1 >= max_misses
              THEN [tiles |-> ListRemove(tls, copy[k]), misses |-> m + 1, over |-> TRUE]
              ELSE DetectMissedSkipping(copy, k + 2, ListRemove(tls, copy[k]), m + 1)
         ELSE DetectMissedSkipping(copy, k + 1, tls, m)

\* variant: one miss counted per frame, however many tiles fell through
DetectMissedOncePerTick(copy, k, tls, m) ==
    LET fell == \E i \in DOMAIN copy : copy[i].y > screen_height
        m2   == IF fell THEN m + 1 ELSE m
    IN  [tiles  |-> SelectSeq(tls, LAMBDA t : t.y <= screen_height),
         misses |-> m2,
         over   |-> fell /\ m2 >= max_misses]

\* variant: the game ends only once misses exceeds max_misses
RECURSIVE DetectMissedLate(_, _, _, _)
DetectMissedLate(copy, k, tls, m) ==
    IF k > Len(copy) THEN [tiles |-> tls, misses |-> m, over |-> FALSE]
    ELSE IF copy[k].y > screen_height
         THEN IF m + 1 > max_misses
              THEN [tiles |-> ListRemove(tls, copy[k]), misses |-> m + 1, over |-> TRUE]
              ELSE DetectMissedLate(copy, k + 1, ListRemove(tls, copy[k]), m + 1)
         ELSE DetectMissedLate(copy, k + 1, tls, m)

\* for tile in tiles[:]: if tile.y > screen_height: remove, misses += 1, and
\* game_over_screen as soon as misses >= max_misses (the scan stops there)
RECURSIVE DetectMissed(_, _, _, _)
DetectMissed(copy, k, tls, m) ==
    IF k > Len(copy) THEN [tiles |-> tls, misses |-> m, over |-> FALSE]
    ELSE IF copy[k].y > screen_height
         THEN IF m + 1 >= max_misses
              THEN [tiles |-> ListRemove(tls, copy[k]), misses |-> m + 1, over |-> TRUE]
              ELSE DetectMissed(copy, k + 1, ListRemove(tls, copy[k]), m + 1)
         ELSE DetectMissed(copy, k + 1, tls, m)

\* variant: the "not in achieved_milestones" test is missing
RECURSIVE CheckMilestonesNoMemo(_, _, _)
CheckMilestonesNoMemo(k, sc, achieved) ==
    IF k > Len(MILESTONES) THEN achieved
    ELSE CheckMilestonesNoMemo(k + 1, sc,
             IF sc >= MILESTONES[k]
             THEN Append(achieved, MILESTONES[k])
             ELSE achieved)

\* for milestone in MILESTONES: if score >= milestone and not yet achieved: append
RECURSIVE CheckMilestones(_, _, _)
CheckMilestones(k, sc, achieved) ==
    IF k > Len(MILESTONES) THEN achieved
    ELSE CheckMilestones(k + 1, sc,
             IF sc >= MILESTONES[k] /\ MILESTONES[k] \notin Range(achieved)
             THEN Append(achieved, MILESTONES[k])
             ELSE achieved)

\* what get_busy() may answer at the end of a frame: a song that was loaded
\* plays on at least until its last beat
BusyAnswers ==
    IF ~music_busy THEN {FALSE}
    ELSE IF current_time >= LastBeat(song.beats) THEN {TRUE, FALSE}
    ELSE {TRUE}

\* the song-ended test taken while a tile is still on the screen
SongEndedIgnoringTiles(busy, tls) == ~busy

\* "not pygame.mixer.music.get_busy() and len(tiles) == 0"
SongEnded(busy, tls) == ~busy /\ tls = <<>>

\* the elapsed time is modelled up to a bounded tail after the last beat
ClockCap == LastBeat(song.beats) + MaxTailFrames * 500

----------------------------------------------------------------------------
(* run_piano_tiles_clone *)

\* One pass of the while True loop up to the start screen: load_mp3,
\* extract_beats, generate_level, initialize_pygame.
LoadAndAnalyze ==
    /\ pc = "boot"
    /\ IF ~song.loadable \/ ~song.tempo_ok
       THEN /\ pc' = "exited"
            /\ UNCHANGED <<level, rng>>
       ELSE LET g == generate_level(song.beats, NumColumns, beat_skip, rng)
            IN  IF g.raised # "none"
                THEN /\ pc' = "exited"
                     /\ UNCHANGED <<level, rng>>
                ELSE /\ pc' = "start_screen"
                     /\ level' = g.level
                     /\ rng' = g.rng
    /\ UNCHANGED <<genVars, song, beat_skip, restarted, loopVars>>

\* main_game_loop entered with the score of the session before
StartClickedKeepingScore ==
    /\ pc = "start_screen"
    /\ pc' = "events"
    /\ \E played \in BOOLEAN : music_busy' = played
    /\ tiles' = <<>>
    /\ current_tile_index' = 0
    /\ current_time' = 0
    /\ misses' = 0
    /\ achieved_milestones' = <<>>
    /\ running' = TRUE
    /\ game_over_reason' = "none"
    /\ spawn_log' = <<>>
    /\ milestone_log' = <<>>
    /\ dipped' = {}
    /\ wrong_taps' = 0
    /\ last_tap' = NoTap
    /\ reached' = {}
    /\ UNCHANGED <<genVars, song, beat_skip, rng, level, restarted, score>>

\* start_screen returns True; main_game_loop runs up to its first clock read
StartClicked ==
    /\ pc = "start_screen"
    /\ pc' = "events"
    /\ \E played \in BOOLEAN : music_busy' = played
    /\ tiles' = <<>>
    /\ current_tile_index' = 0
    /\ current_time' = 0
    /\ score' = 0
    /\ misses' = 0
    /\ achieved_milestones' = <<>>
    /\ running' = TRUE
    /\ game_over_reason' = "none"
    /\ spawn_log' = <<>>
    /\ milestone_log' = <<>>
    /\ dipped' = {}
    /\ wrong_taps' = 0
    /\ last_tap' = NoTap
    /\ reached' = {}
    /\ UNCHANGED <<genVars, song, beat_skip, rng, level, restarted>>

\* pygame.QUIT on the start screen: pygame.quit(); sys.exit()
StartScreenQuit ==
    /\ pc = "start_screen"
    /\ pc' = "exited"
    /\ UNCHANGED <<genVars, song, beat_skip, rng, level, restarted, loopVars>>

----------------------------------------------------------------------------
(* main_game_loop: events *)

\* pygame.KEYDOWN of the key of column c
KeyDown(c) ==
    /\ pc = "events"
    /\ LET r == handle_tile_tap(tiles, c, score)
       IN  /\ r.hit \/ wrong_taps < MaxWrongTaps
           /\ tiles' = r.tiles
           /\ score' = r.score
           /\ wrong_taps' = IF r.hit THEN wrong_taps ELSE wrong_taps + 1
           /\ dipped' = dipped \cup {m \in Range(achieved_milestones) : r.score < m}
           /\ last_tap' = [pressed |-> TRUE,
                           matching |-> Cardinality({i \in DOMAIN tiles :
                                                      TileMatches(tiles[i], c)}),
                           hit_y |-> IF r.hit
                                     THEN tiles[FirstMatch(tiles, c)].y
                                     ELSE 0]
           /\ reached' = IF r.hit
                         THEN reached \cup {m \in Range(MILESTONES) : r.score >= m}
                         ELSE reached
    /\ UNCHANGED <<genVars, runVars, current_tile_index, current_time, misses,
                   achieved_milestones, running, music_busy, game_over_reason,
                   spawn_log, milestone_log>>

\* pygame.QUIT
QuitEvent ==
    /\ pc = "events"
    /\ running
    /\ running' = FALSE
    /\ UNCHANGED <<genVars, runVars, tiles, current_tile_index, current_time,
                   score, misses, achieved_milestones, music_busy,
                   game_over_reason, spawn_log, milestone_log, dipped, wrong_taps,
                   last_tap, reached>>

----------------------------------------------------------------------------
(* main_game_loop: the rest of the frame, after the events *)

\* Spawn, update, miss detection (with the max-misses game over), milestones,
\* the song-ended check, the while test and the next frame's clock read.
\* delta_ms is clock.get_time(); step_ms is how far the next frame's
\* current_time lies after this one's.
Tick(step_ms, delta_ms) ==
    /\ pc = "events"
    /\ current_time + step_ms <= ClockCap
    /\ LET sp    == SpawnDue(level, current_tile_index, tiles, current_time)
           moved == UpdateTiles(sp.tiles, delta_ms)
           det   == DetectMissed(moved, 1, moved, misses)
           ach   == CheckMilestones(1, score, achieved_milestones)
       IN  /\ current_tile_index' = sp.index
           /\ spawn_log' = spawn_log \o
                  [i \in 1..(Len(sp.tiles) - Len(tiles)) |-> sp.tiles[Len(tiles) + i].id]
           /\ tiles' = det.tiles
           /\ misses' = det.misses
           /\ last_tap' = NoTap
           /\ IF det.over
              THEN /\ pc' = "game_over"
                   /\ game_over_reason' = "max_misses"
                   /\ UNCHANGED <<achieved_milestones, milestone_log, music_busy,
                                  current_time>>
              ELSE /\ achieved_milestones' = ach
                   /\ milestone_log' = milestone_log \o
                          SubSeq(ach, Len(achieved_milestones) + 1, Len(ach))
                   /\ \E busy \in BusyAnswers :
                        /\ music_busy' = busy
                        /\ IF SongEnded(busy, det.tiles)
                           THEN /\ pc' = "game_over"
                                /\ game_over_reason' = "song_ended"
                                /\ UNCHANGED current_time
                           ELSE IF ~running
                           THEN /\ pc' = "exited"
                                /\ UNCHANGED <<game_over_reason, current_time>>
                           ELSE /\ pc' = "events"
                                /\ current_time' = current_time + step_ms
                                /\ UNCHANGED game_over_reason
    /\ UNCHANGED <<genVars, song, beat_skip, rng, level, restarted, score, running,
                   dipped, wrong_taps, reached>>

\* game_over_screen returns 'restart': music stops, main_game_loop returns
\* and the while True loop of run_piano_tiles_clone continues.  The values of
\* the ended session stay in the variables until the next call of
\* main_game_loop assigns its locals (StartClicked).
GameOverRestart ==
    /\ pc = "game_over"
    /\ pc' = "boot"
    /\ restarted' = TRUE
    /\ music_busy' = FALSE
    /\ UNCHANGED <<genVars, song, beat_skip, rng, level, tiles, current_tile_index,
                   current_time, score, misses, achieved_milestones, running,
                   game_over_reason, spawn_log, milestone_log, dipped, wrong_taps,
                   last_tap, reached>>

\* game_over_screen returns 'quit' (or the window is closed): the process ends
GameOverQuit ==
    /\ pc = "game_over"
    /\ pc' = "exited"
    /\ music_busy' = FALSE
    /\ UNCHANGED <<genVars, song, beat_skip, rng, level, restarted, tiles,
                   current_tile_index, current_time, score, misses,
                   achieved_milestones, running, game_over_reason, spawn_log,
                   milestone_log, dipped, wrong_taps, last_tap, reached>>

----------------------------------------------------------------------------
(* The session on small songs: every clock reading and delta independent *)

Columns == 0..(NumColumns - 1)

\* steps of the elapsed time between two frames, and clock deltas, ms
TimeSteps == {0, 500}
Deltas == {0, 500}

\* beat_skip of the small sessions
SessionStrides == {1, 2}

SmallSongs ==
    {[loadable |-> FALSE, tempo_ok |-> FALSE, beats |-> <<>>],
     [loadable |-> TRUE, tempo_ok |-> FALSE, beats |-> <<>>]}
    \cup [loadable : {TRUE}, tempo_ok : {TRUE}, beats : SortedSeqs(BeatGrid, MaxBeats)]

IdleGenIn ==
    [beat_times |-> <<>>, num_columns |-> NumColumns, beat_skip |-> 1, seed |-> 0]

Init ==
    /\ gen_in = IdleGenIn
    /\ gen_out = NotCalled
    /\ song \in SmallSongs
    /\ beat_skip \in SessionStrides
    /\ rng \in 0..MaxSeed
    /\ pc = "boot"
    /\ level = <<>>
    /\ restarted = FALSE
    /\ LoopIdle

Next ==
    \/ LoadAndAnalyze
    \/ StartClicked
    \/ StartScreenQuit
    \/ \E c \in Columns : KeyDown(c)
    \/ QuitEvent
    \/ \E step_ms \in TimeSteps, delta_ms \in Deltas : Tick(step_ms, delta_ms)
    \/ GameOverRestart
    \/ GameOverQuit

Spec == Init /\ [][Next]_vars

----------------------------------------------------------------------------
(* The session on one long song: a beat every 500 ms, the generator drawing *)
(* the first item every time, the clock delta equal to the frame's length,  *)
(* the window never closed during play, one session                         *)

LongSteps == {500, 1000}

LongSong ==
    [loadable |-> TRUE, tempo_ok |-> TRUE,
     beats |-> [i \in 1..LongBeats |-> 500 * (i - 1)]]

InitLong ==
    /\ gen_in = IdleGenIn
    /\ gen_out = NotCalled
    /\ song = LongSong
    /\ beat_skip = 1
    /\ rng = 0
    /\ pc = "boot"
    /\ level = <<>>
    /\ restarted = FALSE
    /\ LoopIdle

NextLong ==
    \/ LoadAndAnalyze
    \/ StartClicked
    \/ StartScreenQuit
    \/ \E c \in Columns : KeyDown(c)
    \/ \E d \in LongSteps : Tick(d, d)
    \/ GameOverQuit

SpecLong == InitLong /\ [][NextLong]_vars

----------------------------------------------------------------------------
(* The session with a clock whose delta can be negative: clock.get_time()  *)
(* goes to Tile.update as it is read.  One session, the generator drawing  *)
(* the first item every time.                                              *)

SkewDeltas == {-500, 0, 500}

\* a tile is followed upwards only MaxRise backward deltas above its
\* starting height
MayRise(delta_ms) ==
    \A i \in DOMAIN tiles :
        tiles[i].y + (tile_speed * delta_ms) \div 1000
            >= -tile_height - MaxRise * ((tile_speed * 500) \div 1000)

InitSkew ==
    /\ gen_in = IdleGenIn
    /\ gen_out = NotCalled
    /\ song \in [loadable : {TRUE}, tempo_ok : {TRUE},
                  beats : SortedSeqs(BeatGrid, MaxBeats) \ {<<>>}]
    /\ beat_skip = 1
    /\ rng = 0
    /\ pc = "boot"
    /\ level = <<>>
    /\ restarted = FALSE
    /\ LoopIdle

NextSkew ==
    \/ LoadAndAnalyze
    \/ StartClicked
    \/ \E c \in Columns : KeyDown(c)
    \/ \E step_ms \in TimeSteps, delta_ms \in SkewDeltas :
          MayRise(delta_ms) /\ Tick(step_ms, delta_ms)
    \/ GameOverQuit

SpecSkew == InitSkew /\ [][NextSkew]_vars

----------------------------------------------------------------------------
(* The session whose frames keep coming: while the loop runs, a frame with *)
(* a positive clock delta is eventually executed (clock.tick(60) waits for *)
(* the frame's time to pass).  One session, the generator drawing the     *)
(* first item every time, every key press a hit (a wrong tap touches no    *)
(* tile).                                                                  *)

\* the rest of a frame whose clock delta is positive
PositiveTick == \E step_ms \in TimeSteps : Tick(step_ms, 500)

InitLive ==
    /\ gen_in = IdleGenIn
    /\ gen_out = NotCalled
    /\ song \in [loadable : {TRUE}, tempo_ok : {TRUE},
                  beats : SortedSeqs(BeatGrid, MaxBeats) \ {<<>>}]
    /\ beat_skip = 1
    /\ rng = 0
    /\ pc = "boot"
    /\ level = <<>>
    /\ restarted = FALSE
    /\ LoopIdle

NextLive ==
    \/ LoadAndAnalyze
    \/ StartClicked
    \/ \E c \in Columns : KeyDown(c) /\ score' > score
    \/ QuitEvent
    \/ \E step_ms \in TimeSteps, delta_ms \in Deltas : Tick(step_ms, delta_ms)
    \/ GameOverQuit

SpecLive == InitLive /\ [][NextLive]_vars /\ WF_vars(PositiveTick)

----------------------------------------------------------------------------
(* Properties of generate_level (under SpecGen) *)

GenCalled == gen_out.raised # "not called"

GenTimes == [k \in DOMAIN gen_out.level |-> gen_out.level[k].time]

\* beat_times at indices 0, stride, 2*stride, ... (0-based)
StridedBeats(beat_times, stride) ==
    [k \in 1..((Len(beat_times) + stride - 1) \div stride) |->
        beat_times[(k - 1) * stride + 1]]

\* C1: for every beat sequence, beat_skip >= 1 and num_columns >= 2,
\* generate_level returns a level in which every column lies in
\* 0 .. num_columns - 1 and no two consecutive entries have the same column.
C1_NoRepeatLanesInRange ==
    (GenCalled /\ gen_in.num_columns >= 2) =>
        /\ gen_out.raised = "none"
        /\ \A i \in DOMAIN gen_out.level :
              gen_out.level[i].column \in 0..(gen_in.num_columns - 1)
        /\ \A i \in 2..Len(gen_out.level) :
              gen_out.level[i].column # gen_out.level[i - 1].column

\* a level of three tiles drawn on two lanes
C1_Witness ==
    /\ GenCalled
    /\ gen_in.num_columns = 2
    /\ Len(gen_out.level) >= 3

\* C2: the times of the returned level are exactly the beat times at indices
\* 0, beat_skip, 2*beat_skip, ... in order: ceil(len / beat_skip) entries,
\* non-decreasing whenever the input is.
C2_TimesAreStridedBeats ==
    (GenCalled /\ gen_out.raised = "none") =>
        /\ GenTimes = StridedBeats(gen_in.beat_times, gen_in.beat_skip)
        /\ Len(gen_out.level) * gen_in.beat_skip >= Len(gen_in.beat_times)
        /\ (Len(gen_out.level) - 1) * gen_in.beat_skip < Len(gen_in.beat_times)
              \/ gen_in.beat_times = <<>>
        /\ IsSorted(gen_in.beat_times) => IsSorted(GenTimes)

\* three beats taken with stride 2, the skipped beat differing from the third
C2_Witness ==
    /\ GenCalled
    /\ gen_out.raised = "none"
    /\ gen_in.beat_skip = 2
    /\ Len(gen_in.beat_times) = 3
    /\ gen_in.beat_times[2] # gen_in.beat_times[3]
    /\ Len(gen_out.level) = 2

\* C3: generate_level called with an empty beat sequence fails with
\* EmptyInputError instead of returning a level.
C3_EmptyInputRaises ==
    (GenCalled /\ gen_in.beat_times = <<>>) => gen_out.raised = "EmptyInputError"

----------------------------------------------------------------------------
(* Properties of the session (under Spec) *)

\* main_game_loop has been entered in this pass of run_piano_tiles_clone
InGameLoop == pc \in {"events", "game_over"}

\* C4: when the beat extractor yields an empty or absent beat sequence, with
\* or without a tempo, the session ends and main_game_loop is never entered.
C4_NoBeatsNoGameLoop ==
    song.beats = <<>> => ~InGameLoop

NoDuplicates(s) == \A i, j \in DOMAIN s : i # j => s[i] # s[j]

\* C5: each scheduled target is spawned at most once, and targets are spawned
\* in schedule order: ascending time, equal times in generation order.
C5_SpawnOnceInScheduleOrder ==
    /\ NoDuplicates(spawn_log)
    /\ NoDuplicates([i \in DOMAIN tiles |-> tiles[i].id])
    /\ \A i, j \in DOMAIN spawn_log :
          i < j =>
             LET a == spawn_log[i] + 1
                 b == spawn_log[j] + 1
             IN  \/ level[a].time < level[b].time
                 \/ level[a].time = level[b].time /\ a < b

\* three targets spawned, the first two scheduled at the same time
C5_Witness ==
    /\ Len(spawn_log) = 3
    /\ level[1].time = level[2].time
    /\ level[2].time < level[3].time

\* the active tiles column c's key can hit: in the closed hit window
MatchingTiles(c) ==
    {i \in DOMAIN tiles :
        /\ tiles[i].column = c
        /\ tiles[i].y >= (screen_height - tile_height) - 300
        /\ tiles[i].y <= (screen_height - tile_height) + 300}

\* C6: one key press removes at most one active target: exactly one when a
\* target of that lane is in the hit window (Hit), none otherwise (Miss),
\* also when several targets of the lane are in the window.
C6_TapRemovesAtMostOne ==
    [][\A c \in Columns :
          KeyDown(c) =>
             /\ Range(tiles') \subseteq Range(tiles)
             /\ Len(tiles') = Len(tiles) - (IF MatchingTiles(c) # {} THEN 1 ELSE 0)
             /\ MatchingTiles(c) = {} => tiles' = tiles]_vars

\* a key press handled while two or more targets of its lane were in the window
C6_Witness ==
    /\ pc = "events"
    /\ last_tap.matching >= 2

\* C7: a key press changes the score by +1 on a Hit and by -1 on a wrong tap,
\* with no floor at zero, and leaves the miss count unchanged.
C7_TapScoreEffect ==
    [][\A c \in Columns :
          KeyDown(c) =>
             /\ score' = score + (IF MatchingTiles(c) # {} THEN 1 ELSE -1)
             /\ misses' = misses]_vars

\* a wrong tap has taken the score below zero
C7_Witness ==
    /\ pc = "events"
    /\ last_tap.pressed
    /\ last_tap.matching = 0
    /\ score = -1

\* C8: every target removed for having passed the bottom of the playfield
\* adds exactly 1 to the miss count, and the score is left unchanged.
C8_BoundaryMissCounts ==
    [][(\E step_ms \in TimeSteps, delta_ms \in Deltas : Tick(step_ms, delta_ms)) =>
          /\ score' = score
          /\ misses' - misses =
                Len(tiles) + (current_tile_index' - current_tile_index) - Len(tiles')]_vars

\* after one hit, a frame has counted boundary misses and the score is still 1
C8_Witness ==
    /\ last_tap = NoTap
    /\ misses >= 2
    /\ score = 1
    /\ wrong_taps = 0

----------------------------------------------------------------------------
(* Properties of the session that need a long level (under SpecLong) *)

\* C9: with max_misses = 5 the session goes to the game-over screen for
\* too many misses exactly when the fifth boundary miss is counted, never
\* while fewer than 5 are counted, and never because of a key press.
C9_FifthMissEndsSession ==
    [][/\ pc' = "events" => misses' < 5
       /\ game_over_reason' = "max_misses" => misses' = 5 /\ pc' # "events"
       /\ (misses < 5 /\ misses' >= 5) =>
             pc' = "game_over" /\ game_over_reason' = "max_misses"
       /\ \A c \in Columns :
             KeyDown(c) =>
                /\ pc' = pc
                /\ game_over_reason' = game_over_reason
                /\ misses' = misses]_vars

\* the game-over screen shown for too many misses, after wrong taps too
C9_Witness ==
    /\ pc = "game_over"
    /\ game_over_reason = "max_misses"
    /\ misses = 5
    /\ wrong_taps >= 1

\* C10: within a session each milestone is added to achieved_milestones, and
\* its animation appended, at most once, whatever the hits and wrong taps
\* (also when the score reaches it, drops below and reaches it again), and an
\* achieved milestone is never removed.
C10_MilestoneOnce ==
    [][/\ NoDuplicates(achieved_milestones')
       /\ NoDuplicates(milestone_log')
       /\ pc = "events" =>
             /\ Range(achieved_milestones) \subseteq Range(achieved_milestones')
             /\ Len(milestone_log') >= Len(milestone_log)
             /\ SubSeq(milestone_log', 1, Len(milestone_log)) = milestone_log]_vars

\* the score reached 100, fell below it, is at 100 or more again and a frame
\* has checked the milestones since: one animation for 100
C10_Witness ==
    /\ pc = "events"
    /\ last_tap = NoTap
    /\ score >= 100
    /\ 100 \in dipped
    /\ milestone_log = <<100>>

----------------------------------------------------------------------------
(* Properties of the end of the song, the key press and the restart *)
(* (under Spec)                                                      *)

AnyTick == \E step_ms \in TimeSteps, delta_ms \in Deltas : Tick(step_ms, delta_ms)

\* C11: a frame at whose end the music is not playing and no tile is active
\* takes the session to the game-over screen in that same frame, and the
\* song-ended transition is never taken while the music still plays or a
\* tile is still active.
C11_SongEndedTransition ==
    [][/\ AnyTick =>
             ((~music_busy' /\ tiles' = <<>>) => pc' = "game_over")
       /\ (game_over_reason' = "song_ended" /\ game_over_reason # "song_ended") =>
             /\ AnyTick
             /\ pc' = "game_over"
             /\ ~music_busy'
             /\ tiles' = <<>>
       /\ game_over_reason' = "song_ended" => (~music_busy' /\ tiles' = <<>>)]_vars

\* the song ended after every tile of a level of two or more was spawned and
\* left the screen, the window never closed
C11_Witness ==
    /\ pc = "game_over"
    /\ game_over_reason = "song_ended"
    /\ running
    /\ Len(level) >= 2
    /\ Len(spawn_log) = Len(level)
    /\ tiles = <<>>

\* s without its i-th element
RemoveAt(s, i) == SubSeq(s, 1, i - 1) \o SubSeq(s, i + 1, Len(s))

\* C12: a key press on lane c is a Hit exactly when some active tile of lane
\* c has its y in the closed interval [hitLine - 300, hitLine + 300], where
\* hitLine = screen_height - tile_height; any other press (no tile of the
\* lane, or only tiles outside the interval) is a wrong tap that takes one
\* point and leaves the active tiles unchanged.
C12_HitIffInClosedWindow ==
    [][\A c \in Columns :
          KeyDown(c) =>
             IF \E i \in DOMAIN tiles :
                   /\ tiles[i].column = c
                   /\ tiles[i].y >= (600 - 100) - 300
                   /\ tiles[i].y <= (600 - 100) + 300
             THEN /\ score' = score + 1
                  /\ \E i \in MatchingTiles(c) : tiles' = RemoveAt(tiles, i)
             ELSE /\ score' = score - 1
                  /\ tiles' = tiles]_vars

\* a Hit on a tile exactly on the edge of the window, y = hitLine - 300,
\* while another tile was still above the window
C12_Witness ==
    /\ pc = "events"
    /\ last_tap.pressed
    /\ last_tap.matching = 1
    /\ last_tap.hit_y = 200
    /\ \E i \in DOMAIN tiles : tiles[i].y < 200

LevelTimes == [k \in DOMAIN level |-> level[k].time]

\* C13: after the game-over screen returns 'restart' the next session starts
\* fresh: score 0, no miss, no milestone achieved, no active tile, nothing
\* spawned, elapsed time 0, on a level generated again from the same song;
\* nothing of the ended session carries over.
C13_RestartStartsFresh ==
    [][/\ (pc = "game_over" /\ pc' = "boot") =>
             (song' = song /\ beat_skip' = beat_skip)
       /\ (restarted /\ pc = "boot" /\ pc' = "start_screen") =>
             /\ song' = song
             /\ LevelTimes' = StridedBeats(song.beats, beat_skip)
             /\ \A k \in DOMAIN level' : level'[k].column \in Columns
       /\ (restarted /\ pc = "start_screen" /\ pc' = "events") =>
             /\ score' = 0
             /\ misses' = 0
             /\ achieved_milestones' = <<>>
             /\ milestone_log' = <<>>
             /\ tiles' = <<>>
             /\ current_tile_index' = 0
             /\ spawn_log' = <<>>
             /\ current_time' = 0
             /\ running'
             /\ level' = level]_vars

\* the first frame of a session entered after a restart has spawned a tile
C13_Witness ==
    /\ restarted
    /\ pc = "events"
    /\ score = 0
    /\ misses = 0
    /\ spawn_log = <<0>>
    /\ Len(tiles) = 1
    /\ Len(level) >= 2

\* C14: once pygame.QUIT has been handled among the events of a frame the
\* loop ends before the tick: what runs after it spawns no tile, moves and
\* removes none, counts no miss, checks no milestone and shows no game-over
\* screen, so the score, the misses and the active tiles stay as they were.
C14_NoTickAfterQuit ==
    [][(~running /\ level # <<>> /\ AnyTick) =>
          /\ pc' = "exited"
          /\ tiles' = tiles
          /\ current_tile_index' = current_tile_index
          /\ misses' = misses
          /\ score' = score
          /\ achieved_milestones' = achieved_milestones]_vars

\* position of tile id in the order of spawning
SpawnPos(id) == CHOOSE k \in DOMAIN spawn_log : spawn_log[k] = id

\* C16: when several active tiles of the pressed lane are in the hit window,
\* the Hit removes the one spawned earliest (the first of them in the order
\* of insertion) and leaves every other tile active, in the same order.
C16_HitTakesEarliestSpawned ==
    [][\A c \in Columns :
          (KeyDown(c) /\ MatchingTiles(c) # {}) =>
             \E i \in MatchingTiles(c) :
                /\ \A j \in MatchingTiles(c) :
                      /\ i <= j
                      /\ SpawnPos(tiles[i].id) <= SpawnPos(tiles[j].id)
                /\ tiles' = RemoveAt(tiles, i)]_vars

\* a Hit with two tiles of the lane in the window: the lower one was taken,
\* the one spawned after it is still active, in the window, above it
C16_Witness ==
    /\ pc = "events"
    /\ last_tap.matching = 2
    /\ \E i \in DOMAIN tiles :
          /\ tiles[i].y >= 200
          /\ tiles[i].y < last_tap.hit_y

----------------------------------------------------------------------------
(* Properties of the phases of a frame (under Spec) *)

ActiveIds == {tiles[i].id : i \in DOMAIN tiles}

\* the level indices spawned by the step
NewIds == current_tile_index..(current_tile_index' - 1)

\* C17: at the end of every frame after which the session goes on no active
\* tile has y > screen_height: every tile that crossed the bottom was
\* removed and counted as one miss, and a tile with y <= screen_height is
\* never removed by the miss detection.
C17_NoTileBelowScreen ==
    [][/\ pc' = "events" => \A i \in DOMAIN tiles' : tiles'[i].y <= screen_height
       /\ \A step_ms \in TimeSteps, delta_ms \in Deltas :
             Tick(step_ms, delta_ms) =>
                LET move == (tile_speed * delta_ms) \div 1000
                IN  /\ \A i \in DOMAIN tiles :
                          tiles[i].y + move <= screen_height =>
                             tiles[i].id \in ActiveIds'
                    /\ NewIds \subseteq ActiveIds'
                    /\ ActiveIds' \subseteq ActiveIds \cup NewIds
                    /\ misses' - misses =
                          Cardinality((ActiveIds \cup NewIds) \ ActiveIds')
                    /\ pc' = "events" =>
                          \A i \in DOMAIN tiles :
                             tiles[i].y + move > screen_height =>
                                tiles[i].id \notin ActiveIds']_vars

\* two tiles spawned together crossed the bottom in one frame and were both
\* removed and counted, a third is still falling
C17_Witness ==
    /\ pc = "events"
    /\ last_tap = NoTap
    /\ Len(level) = 3
    /\ level[1].time = level[2].time
    /\ misses = 2
    /\ score = 0
    /\ \E i \in DOMAIN tiles : tiles[i].id = 2

\* C18: with a level of non-decreasing times, the spawn phase of a frame at
\* elapsed time t leaves spawned every level entry of time <= t and pending
\* only entries of time > t; every tile it spawns is on its entry's lane and
\* starts at y = -tile_height with speed screen_height / hit_time, so that
\* the frame's update leaves it at -tile_height + speed * delta.
C18_SpawnPhaseCatchesUp ==
    [][\A step_ms \in TimeSteps, delta_ms \in Deltas :
          (Tick(step_ms, delta_ms) /\ IsSorted(LevelTimes)) =>
             /\ \A k \in DOMAIN level :
                   level[k].time <= current_time <=> k <= current_tile_index'
             /\ spawn_log' = spawn_log \o
                    [n \in 1..(current_tile_index' - current_tile_index) |->
                        current_tile_index + n - 1]
             /\ \A i \in DOMAIN tiles' :
                   tiles'[i].id \in NewIds =>
                      /\ tiles'[i].column = level[tiles'[i].id + 1].column
                      /\ tiles'[i].y = -100 + ((600 \div 2) * delta_ms) \div 1000]_vars

\* a frame spawned two tiles due at the same time and moved both by one
\* delta; the third entry of the level is still pending
C18_Witness ==
    /\ pc = "events"
    /\ last_tap = NoTap
    /\ Len(level) = 3
    /\ current_tile_index = 2
    /\ spawn_log = <<0, 1>>
    /\ Len(tiles) = 2
    /\ tiles[1].y = 50
    /\ tiles[2].y = 50
    /\ misses = 0

\* C23: whenever a key press is handled every active tile has
\* y <= screen_height, so every tile a Hit removes has its y between
\* hitLine - 300 = 200 and screen_height = 600: the part of the hit window
\* below the screen, up to 800, is never the position of a tile that is hit.
C23_HitOnlyOnScreen ==
    /\ pc = "events" => \A i \in DOMAIN tiles : tiles[i].y <= 600
    /\ (last_tap.pressed /\ last_tap.matching >= 1) =>
          (last_tap.hit_y >= 200 /\ last_tap.hit_y <= 600)

\* a Hit on the lowest tile a key press can find, after another tile had
\* crossed the bottom and was removed
C23_Witness ==
    /\ pc = "events"
    /\ last_tap.pressed
    /\ last_tap.matching >= 1
    /\ last_tap.hit_y = 500
    /\ misses >= 1

\* C24: the session never goes to the game-over screen for the end of the
\* song while an entry of the level is still to be spawned: whenever that
\* transition is taken every entry has been spawned and has left the screen.
C24_SongEndsAfterAllSpawned ==
    game_over_reason = "song_ended" =>
        /\ current_tile_index = Len(level)
        /\ Len(spawn_log) = Len(level)
        /\ tiles = <<>>

----------------------------------------------------------------------------
(* Milestones and the key presses of one frame (under SpecLong) *)

\* C15: every milestone a Hit has taken the score to is in
\* achieved_milestones (and its animation appended) once the frame of that
\* Hit has ended, also when later key presses of the same frame took the
\* score below the milestone again.
C15_MilestoneNotedOnHit ==
    (pc = "events" /\ last_tap = NoTap) =>
        /\ reached \subseteq Range(achieved_milestones)
        /\ reached \subseteq Range(milestone_log)

----------------------------------------------------------------------------
(* The update phase under a clock that can run backwards (under SpecSkew) *)

\* C19: a frame moves every tile down by tile_speed * delta, the delta taken
\* as 0 when the clock reports a negative one: no tile's y ever decreases,
\* and a negative delta leaves every position as it was.
C19_NegativeDeltaClamped ==
    [][\A step_ms \in TimeSteps, delta_ms \in SkewDeltas :
          Tick(step_ms, delta_ms) =>
             \A i \in DOMAIN tiles, j \in DOMAIN tiles' :
                tiles'[j].id = tiles[i].id =>
                   /\ tiles'[j].y >= tiles[i].y
                   /\ tiles'[j].y = tiles[i].y +
                         (IF delta_ms < 0 THEN 0 ELSE (tile_speed * delta_ms) \div 1000)]_vars

\* C25: in every state the active tiles are in the order they were spawned
\* and in non-increasing y: a tile spawned earlier is never higher on the
\* screen than one spawned later, whatever the frames, hits and misses, so
\* that the first match of a key press is a lowest tile among the matches.
C25_ActiveListOrdered ==
    \A i, j \in DOMAIN tiles :
        i < j =>
           /\ tiles[i].id < tiles[j].id
           /\ tiles[i].y >= tiles[j].y

----------------------------------------------------------------------------
(* Every tile leaves the screen (under SpecLive) *)

\* tile id is active in a running session
Active(id) == pc = "events" /\ id \in ActiveIds

\* C20: provided frames with a positive clock delta keep being executed,
\* every tile that is spawned eventually leaves the active tiles: by a Hit,
\* by crossing the bottom of the screen, or because the session ends.
C20_EveryTileLeaves ==
    \A id \in 0..(MaxBeats - 1) : Active(id) ~> ~Active(id)

\* the session still runs after every tile of a level of two or more was
\* spawned and left by crossing the bottom, none by a Hit
C20_Witness ==
    /\ pc = "events"
    /\ Len(level) >= 2
    /\ Len(spawn_log) = Len(level)
    /\ misses = Len(level)
    /\ tiles = <<>>

----------------------------------------------------------------------------
(* Counting the tiles of a session (under SpecLong) *)

\* the Hits of the session: a key press adds 1 to the score on a Hit and
\* takes 1 otherwise
Hits == score + wrong_taps

\* C21: in every state of a session the number of tiles spawned so far is
\* the number of active tiles plus the number of Hits plus the number of
\* boundary misses: no tile is both hit and counted as missed, none is
\* counted twice, none is lost.
C21_SpawnedAccountedFor ==
    /\ current_tile_index = Len(spawn_log)
    /\ ActiveIds \subseteq Range(spawn_log)
    /\ Cardinality(ActiveIds) = Len(tiles)
    /\ Len(spawn_log) = Len(tiles) + Hits + misses

\* tiles have been hit, others have crossed the bottom, others are still
\* falling, and a wrong tap was made
C21_Witness ==
    /\ pc = "events"
    /\ Hits >= 2
    /\ misses >= 2
    /\ Len(tiles) >= 2
    /\ wrong_taps = 1

\* C22: misses never exceeds max_misses = 5, also when more tiles cross the
\* bottom in one frame than misses are left: the counting stops at the miss
\* that reaches max_misses.
C22_MissesNeverExceedMax ==
    /\ misses >= 0
    /\ misses <= 5
    /\ pc = "events" => misses < 5

\* the fifth miss was counted in a frame in which two tiles crossed the
\* bottom: the second of them is still in the list, uncounted
C22_Witness ==
    /\ pc = "game_over"
    /\ game_over_reason = "max_misses"
    /\ misses = 5
    /\ \E i \in DOMAIN tiles : tiles[i].y > screen_height

====
